---- MODULE Spec2Model ----
(***************************************************************************)
(* Startup, credential loading, backend selection and signal-driven        *)
(* two-phase shutdown of the livekit-server process.                       *)
(*                                                                         *)
(* Sources: startServer / getConfig (cmd/server main, src/unnamed/part_002)*)
(* and the wire providers of package service (src/magefile_unix.go); the   *)
(* mage targets Build and Clean (src/magefile.go).                         *)
(*                                                                         *)
(* Outside the sources read here: config.NewConfig (conf.Keys is taken to  *)
(* be the non-nil map it yields), LivekitServer.Start / Stop, and the      *)
(* order in which wire calls the providers (any order that respects their  *)
(* parameters; the one used here is createRedisClient, getMessageBus,      *)
(* createStore, createKeyProvider, createWebhookNotifier, the rest).       *)
(* os/signal delivers to a Notify channel with a send that never blocks;   *)
(* before signal.Notify the default action of the signal ends the process. *)
(***************************************************************************)
EXTENDS Integers, Sequences, FiniteSets, TLC

VARIABLES
    conf,        \* *config.Config: Development, KeyFile, Keys, Redis
    file,        \* the file conf.KeyFile names, as the filesystem holds it
    pc,          \* position of the main task inside startServer
    err,         \* the error startServer returns ("nil" when none)
    failedAt,    \* the step of startServer that returned the error ("none" when none)
    rc,          \* redis.UniversalClient given by createRedisClient
    store,       \* ObjectStore given by createStore
    bus,         \* psrpc.MessageBus given by getMessageBus
    provider,    \* auth.KeyProvider given by createKeyProvider (its key set)
    fileOps,     \* filesystem calls createKeyProvider made on conf.KeyFile
    server,      \* *LivekitServer returned by InitializeServer
    started,     \* server.Start has been invoked
    subscribed,  \* signal.Notify(sigChan, ...) has completed
    sigChan,     \* contents of the buffered channel sigChan
    lpc,         \* position of the signal-listener goroutine
    i,           \* loop variable of the listener
    sig,         \* signal the listener holds in this iteration
    stops,       \* force flags of the server.Stop tasks dispatched, in order
    task,        \* state of each dispatched server.Stop task
    begun,       \* force flags of the Stop tasks in the order they began running
    proc,        \* "alive", "exited" (main returned) or "killed" (default signal action)
    exitCode,    \* process exit status once proc = "exited"
    sent,        \* termination signals sent to the process so far
    notified,    \* for each signal that reached signal.Notify's handler: was it queued
    received,    \* signals the listener has taken from sigChan
    node,        \* routing.LocalNode given by routing.NewLocalNode
    panicIn,     \* the task in which an unrecovered panic occurred ("none" when none)
    call,        \* a single application of a pure function: its inputs and its result
    mage         \* the working tree the mage targets act on, and the Build results so far

vars == << conf, file, pc, err, failedAt, rc, store, bus, provider, fileOps, server, started,
           subscribed, sigChan, lpc, i, sig, stops, task, begun, proc, exitCode,
           sent, notified, received, node, panicIn, call, mage >>

(***************************************************************************)
(* Bounds of the model.                                                    *)
(***************************************************************************)
MaxSignals == 3

\* the versions the sources go through, and the Build invocations followed
MaxSources == 3
MaxBuilds == 3

(***************************************************************************)
(* Program constants.                                                      *)
(***************************************************************************)
otherFilter == 7        \* var otherFilter os.FileMode = 0007
SigChanCap == 1         \* make(chan os.Signal, 1)
LoopCount == 2          \* for i := range 2

Signals == {"SIGINT", "SIGTERM", "SIGQUIT"}

(***************************************************************************)
(* Bitwise AND of two naturals (os.FileMode & mask).                       *)
(***************************************************************************)
RECURSIVE BitAnd(_, _)
BitAnd(a, b) ==
    IF a = 0 \/ b = 0 THEN 0
    ELSE (IF a % 2 = 1 /\ b % 2 = 1 THEN 1 ELSE 0) + 2 * BitAnd(a \div 2, b \div 2)

(***************************************************************************)
(* map[string]string as a set of <<key, secret>> pairs with unique keys.   *)
(***************************************************************************)
MapKeys(m) == {p[1] : p \in m}

\* decoding a YAML mapping into an existing map: entries of f are stored
\* into m, replacing entries of the same key
MapStore(m, f) == f \cup {p \in m : p[1] \notin MapKeys(f)}

EmptyMap == {}

\* auth.KeyProvider: nil, or the provider built from a key map
NoProvider == [built |-> FALSE, keys |-> EmptyMap]
NewFileBasedKeyProviderFromMap(keys) == [built |-> TRUE, keys |-> keys]

(***************************************************************************)
(* Input domains.                                                          *)
(***************************************************************************)
InlineKeys == {EmptyMap, {<<"k1", "s1">>}}
FileEntries == {EmptyMap, {<<"k1", "s2">>}, {<<"k2", "s2">>}}
\* permission bits: 0600, 0640, 0604, 0602, 0601, 0647, 0006
Modes == {384, 416, 388, 386, 385, 423, 6}
ContentKinds == {"empty", "syntax", "typeError", "mapping"}

NoFile == [exists |-> FALSE, mode |-> 0, openable |-> FALSE,
           kind |-> "empty", entries |-> EmptyMap]

Files ==
    {NoFile} \cup
    { [exists |-> TRUE, mode |-> m, openable |-> o, kind |-> k, entries |-> e] :
        m \in Modes, o \in BOOLEAN, k \in ContentKinds, e \in FileEntries }

\* a working tree in which no mage target has run: sources at their first
\* version, no .checksumgo file, no bin directory, no binary
FreshCheckout == [sources |-> 1, checksum |-> 0, binDir |-> FALSE, binary |-> 0, rets |-> << >>]

\* no pure function is being applied
NoCall == [fn |-> "none"]

Confs ==
    [Development : BOOLEAN, KeyFile : {"", "keys.yaml"},
     Keys : InlineKeys, Redis : BOOLEAN]

Init ==
    /\ conf \in Confs
    /\ file \in IF conf.KeyFile = "" THEN {NoFile}
                ELSE {f \in Files : (f.kind \in {"empty", "syntax"} => f.entries = EmptyMap)}
    /\ pc = "getConfig"
    /\ err = "nil"
    /\ failedAt = "none"
    /\ rc = "unset"
    /\ store = "unset"
    /\ bus = "unset"
    /\ provider = NoProvider
    /\ fileOps = << >>
    /\ server = "unset"
    /\ started = FALSE
    /\ subscribed = FALSE
    /\ sigChan = << >>
    /\ lpc = "notStarted"
    /\ i = 0
    /\ sig = "none"
    /\ stops = << >>
    /\ task = << >>
    /\ begun = << >>
    /\ proc = "alive"
    /\ exitCode = -1
    /\ sent = 0
    /\ notified = << >>
    /\ received = 0
    /\ node = "unset"
    /\ panicIn = "none"
    /\ call = NoCall
    /\ mage = FreshCheckout

(***************************************************************************)
(* Pure functions of the providers.                                        *)
(***************************************************************************)
DevKeys == {<<"devkey", "secret">>}

\* getConfig: development mode with no keys installs the placeholder keys
getConfigKeys(c) ==
    IF c.Development /\ c.Keys = EmptyMap THEN DevKeys ELSE c.Keys

\* faulty variant of OthersBits: only the read bit of "others" is tested
OthersBitsReadOnly(mode) == BitAnd(mode, 4)

\* st.Mode().Perm() & otherFilter
OthersBits(mode) == BitAnd(mode, otherFilter)

\* decoder.Decode(conf.Keys): what the map holds afterwards, and the error
Decode(keys, f) ==
    CASE f.kind = "empty"     -> [Keys |-> keys, err |-> "EOF"]
      [] f.kind = "syntax"    -> [Keys |-> keys, err |-> "yaml: syntax error"]
      [] f.kind = "typeError" -> [Keys |-> MapStore(keys, f.entries),
                                  err |-> "yaml: unmarshal errors"]
      [] OTHER                -> [Keys |-> MapStore(keys, f.entries), err |-> "nil"]

\* faulty variant of KeysOrError: the len(conf.Keys) == 0 check left out
KeysOrErrorUnchecked(keys, ops) ==
    [err |-> "nil", Keys |-> keys, ops |-> ops,
     provider |-> NewFileBasedKeyProviderFromMap(keys)]

\* the check that at least one key is available, and the provider built
KeysOrError(keys, ops) ==
    IF keys = EmptyMap
    THEN [err |-> "one of key-file or keys must be provided", Keys |-> keys,
          ops |-> ops, provider |-> NoProvider]
    ELSE [err |-> "nil", Keys |-> keys, ops |-> ops,
          provider |-> NewFileBasedKeyProviderFromMap(keys)]

\* faulty variant of KeyFileRejected: the inline keys are dropped on rejection
KeyFileRejectedDropsKeys(e, keys, ops) ==
    [err |-> e, Keys |-> EmptyMap, ops |-> ops, provider |-> NoProvider]

\* createKeyProvider returning nil, err from inside the key-file branch
KeyFileRejected(e, keys, ops) ==
    [err |-> e, Keys |-> keys, ops |-> ops, provider |-> NoProvider]

\* faulty variant of KeyFileSet: the key file is looked at only without inline keys
KeyFileSetAndNoInlineKeys(c) == c.KeyFile # "" /\ c.Keys = EmptyMap

\* if conf.KeyFile != ""  ("prefer keyfile if set")
KeyFileSet(c) == c.KeyFile # ""

\* createKeyProvider(conf) with the key file f on disk: the error, conf.Keys
\* afterwards, the filesystem calls made and the provider returned
createKeyProvider(c, f) ==
    IF KeyFileSet(c)
    THEN IF ~f.exists
         THEN KeyFileRejected("stat: no such file", c.Keys, <<"stat">>)
         ELSE IF OthersBits(f.mode) # 0
         THEN KeyFileRejected("key file others permissions must be set to 0",
                              c.Keys, <<"stat">>)
         ELSE IF ~f.openable
         THEN KeyFileRejected("open: permission denied", c.Keys, <<"stat", "open">>)
         ELSE LET d == Decode(c.Keys, f) IN
              IF d.err # "nil"
              THEN KeyFileRejected(d.err, d.Keys, <<"stat", "open", "decode">>)
              ELSE KeysOrError(d.Keys, <<"stat", "open", "decode">>)
    ELSE KeysOrError(c.Keys, << >>)

\* faulty variant of createRedisClient: a failed connection falls back to no client
createRedisClientFallback(c, connected) ==
    IF ~c.Redis \/ ~connected THEN [rc |-> "nil", err |-> "nil"]
    ELSE [rc |-> "client", err |-> "nil"]

\* faulty variant of createRedisClient: development mode also selects the
\* local mode
createRedisClientUnlessDevelopment(c, connected) ==
    IF ~c.Redis \/ c.Development THEN [rc |-> "nil", err |-> "nil"]
    ELSE IF connected THEN [rc |-> "client", err |-> "nil"]
    ELSE [rc |-> "nil", err |-> "unable to connect to redis"]

\* createRedisClient(conf); connected is the outcome of GetRedisClient's dial
createRedisClient(c, connected) ==
    IF ~c.Redis THEN [rc |-> "nil", err |-> "nil"]
    ELSE IF connected THEN [rc |-> "client", err |-> "nil"]
    ELSE [rc |-> "nil", err |-> "unable to connect to redis"]

createStore(r) == IF r # "nil" THEN "RedisStore" ELSE "LocalStore"

\* faulty variant of getMessageBus: the nil test inverted
getMessageBusInverted(r) == IF r # "nil" THEN "LocalMessageBus" ELSE "RedisMessageBus"

getMessageBus(r) == IF r = "nil" THEN "LocalMessageBus" ELSE "RedisMessageBus"

\* provider.GetSecret(key)
GetSecret(keys, key) ==
    IF key \in MapKeys(keys) THEN (CHOOSE p \in keys : p[1] = key)[2] ELSE ""

WebHookConfs == [APIKey : {"", "k1", "k9"}, URLs : {0, 1}]

\* createWebhookNotifier(conf, provider); built is the outcome of NewDefaultNotifier
createWebhookNotifier(wc, keys, built) ==
    IF GetSecret(keys, wc.APIKey) = "" /\ wc.URLs > 0
    THEN "api_key is required to use webhooks"
    ELSE IF built THEN "nil" ELSE "webhook: notifier error"

(***************************************************************************)
(* The main task: startServer.                                             *)
(***************************************************************************)
startupVars == << rc, store, bus, provider, fileOps, server >>
signalVars == << subscribed, sigChan, lpc, i, sig, stops, task, begun, notified, received >>
envVars == << file, sent >>
restVars == << node, panicIn, call, mage >>

\* rtc.Recover(logger.GetLogger()): the recovered panic, nil when the
\* goroutine is not panicking
rtcRecover(panicking) == panicking

\* faulty variant of mainExitCode: an error returned by the command is fatal
mainExitCodeOnError(recovered, e) == IF recovered \/ e # "nil" THEN 1 ELSE 0

\* main: the deferred function calls os.Exit(1) when a panic was recovered;
\* an error returned by cmd.Run is printed and main returns, status 0
mainExitCode(recovered, e) == IF recovered THEN 1 ELSE 0

\* return err from startServer
Return(e) ==
    /\ err' = e
    /\ failedAt' = (IF e = "nil" THEN "none" ELSE pc)
    /\ pc' = "returned"

\* conf, err := getConfig(c); if err != nil { return err }
GetConfig ==
    /\ proc = "alive" /\ pc = "getConfig"
    /\ \E ok \in BOOLEAN :
        IF ok
        THEN /\ conf' = [conf EXCEPT !.Keys = getConfigKeys(conf)]
             /\ pc' = "validateKeys"
             /\ UNCHANGED << err, failedAt >>
        ELSE /\ Return("config error")
             /\ conf' = conf
    /\ UNCHANGED << startupVars, signalVars, envVars, started, proc, exitCode >>
    /\ UNCHANGED restVars

\* a step of startServer that only succeeds or returns its error
FallibleStep(at, next, e) ==
    /\ proc = "alive" /\ pc = at
    /\ \E ok \in BOOLEAN :
        IF ok THEN pc' = next /\ UNCHANGED << err, failedAt >> ELSE Return(e)
    /\ UNCHANGED << conf, startupVars, signalVars, envVars, started, proc, exitCode >>
    /\ UNCHANGED restVars

\* faulty variant of ValidateKeys: the error is recorded but startup goes on
ValidateKeysContinues ==
    /\ proc = "alive" /\ pc = "validateKeys"
    /\ \E ok \in BOOLEAN :
        /\ err' = (IF ok THEN err ELSE "invalid keys")
        /\ failedAt' = (IF ok THEN failedAt ELSE "validateKeys")
    /\ pc' = "profiles"
    /\ UNCHANGED << conf, startupVars, signalVars, envVars, started, proc, exitCode >>
    /\ UNCHANGED restVars

\* err = conf.ValidateKeys()
ValidateKeys == FallibleStep("validateKeys", "profiles", "invalid keys")

\* cpuprofile / memprofile: os.Create and pprof.StartCPUProfile
Profiles == FallibleStep("profiles", "newLocalNode", "create profile")

\* currentNode, err := routing.NewLocalNode(conf)
NewLocalNode ==
    /\ proc = "alive" /\ pc = "newLocalNode"
    /\ \E ok \in BOOLEAN :
        IF ok
        THEN /\ node' = "created"
             /\ pc' = "prometheusInit"
             /\ UNCHANGED << err, failedAt >>
        ELSE /\ Return("local node")
             /\ node' = node
    /\ UNCHANGED << conf, startupVars, signalVars, envVars, started, proc, exitCode,
                    panicIn, call, mage >>

\* prometheus.Init(...)
PrometheusInit == FallibleStep("prometheusInit", "createRedisClient", "prometheus")

(***************************************************************************)
(* service.InitializeServer: the providers, in dependency order.  The      *)
(* first provider error is returned with a nil server.                     *)
(***************************************************************************)
\* faulty variant of InitializeServerFailed: the error is kept but startServer goes on
InitializeServerFailedIgnored(e) ==
    /\ err' = e
    /\ failedAt' = pc
    /\ pc' = "notify"

\* server, err := service.InitializeServer(conf, currentNode)
\* if err != nil { return err }
InitializeServerFailed(e) == Return(e)

InitCreateRedisClient ==
    /\ proc = "alive" /\ pc = "createRedisClient"
    /\ \E connected \in BOOLEAN :
        LET r == createRedisClient(conf, connected) IN
        /\ rc' = r.rc
        /\ IF r.err # "nil" THEN InitializeServerFailed(r.err)
           ELSE pc' = "getMessageBus" /\ UNCHANGED << err, failedAt >>
    /\ UNCHANGED << conf, store, bus, provider, fileOps, server, signalVars,
                    envVars, started, proc, exitCode >>
    /\ UNCHANGED restVars

InitGetMessageBus ==
    /\ proc = "alive" /\ pc = "getMessageBus"
    /\ bus' = getMessageBus(rc)
    /\ pc' = "createStore"
    /\ UNCHANGED << conf, err, failedAt, rc, store, provider, fileOps, server, signalVars,
                    envVars, started, proc, exitCode >>
    /\ UNCHANGED restVars

InitCreateStore ==
    /\ proc = "alive" /\ pc = "createStore"
    /\ store' = createStore(rc)
    /\ pc' = "createKeyProvider"
    /\ UNCHANGED << conf, err, failedAt, rc, bus, provider, fileOps, server, signalVars,
                    envVars, started, proc, exitCode >>
    /\ UNCHANGED restVars

InitCreateKeyProvider ==
    /\ proc = "alive" /\ pc = "createKeyProvider"
    /\ LET r == createKeyProvider(conf, file) IN
        /\ conf' = [conf EXCEPT !.Keys = r.Keys]
        /\ fileOps' = r.ops
        /\ provider' = r.provider
        /\ IF r.err # "nil" THEN InitializeServerFailed(r.err)
           ELSE pc' = "createWebhookNotifier" /\ UNCHANGED << err, failedAt >>
    /\ UNCHANGED << rc, store, bus, server, signalVars, envVars, started, proc, exitCode >>
    /\ UNCHANGED restVars

InitCreateWebhookNotifier ==
    /\ proc = "alive" /\ pc = "createWebhookNotifier"
    /\ \E wc \in WebHookConfs, built \in BOOLEAN :
        LET e == createWebhookNotifier(wc, provider.keys, built) IN
        IF e # "nil" THEN InitializeServerFailed(e)
        ELSE pc' = "newLivekitServer" /\ UNCHANGED << err, failedAt >>
    /\ UNCHANGED << conf, startupVars, signalVars, envVars, started, proc, exitCode >>
    /\ UNCHANGED restVars

\* the remaining constructors up to NewLivekitServer
InitNewLivekitServer ==
    /\ proc = "alive" /\ pc = "newLivekitServer"
    /\ \E ok \in BOOLEAN :
        IF ok
        THEN /\ server' = "built"
             /\ pc' = "notify"
             /\ UNCHANGED << err, failedAt >>
        ELSE /\ InitializeServerFailed("constructor error")
             /\ server' = server
    /\ UNCHANGED << conf, rc, store, bus, provider, fileOps, signalVars, envVars,
                    started, proc, exitCode >>
    /\ UNCHANGED restVars

(***************************************************************************)
(* Signal subscription, the listener goroutine and the Stop tasks.         *)
(***************************************************************************)
\* faulty variant of Notify: the subscription is not made before the listener
\* and the server are started
NotifySkipped ==
    /\ proc = "alive" /\ pc = "notify"
    /\ subscribed' = subscribed
    /\ pc' = "goListener"
    /\ UNCHANGED << conf, err, failedAt, startupVars, envVars, started, proc, exitCode,
                    sigChan, lpc, i, sig, stops, task, begun, notified, received >>
    /\ UNCHANGED restVars

\* sigChan := make(chan os.Signal, 1); signal.Notify(sigChan, SIGINT, SIGTERM, SIGQUIT)
Notify ==
    /\ proc = "alive" /\ pc = "notify"
    /\ subscribed' = TRUE
    /\ pc' = "goListener"
    /\ UNCHANGED << conf, err, failedAt, startupVars, envVars, started, proc, exitCode,
                    sigChan, lpc, i, sig, stops, task, begun, notified, received >>
    /\ UNCHANGED restVars

\* go func() { for i := range 2 { ... } }()
GoListener ==
    /\ proc = "alive" /\ pc = "goListener"
    /\ lpc' = "recv"
    /\ pc' = "start"
    /\ UNCHANGED << conf, err, failedAt, startupVars, envVars, started, proc, exitCode,
                    subscribed, sigChan, i, sig, stops, task, begun, notified, received >>
    /\ UNCHANGED restVars

\* return server.Start(): the call is made and blocks
StartServer ==
    /\ proc = "alive" /\ pc = "start"
    /\ started' = TRUE
    /\ pc' = "inStart"
    /\ UNCHANGED << conf, err, failedAt, startupVars, envVars, signalVars, proc, exitCode >>
    /\ UNCHANGED restVars

\* server.Start returns once the server has been told to stop
StartReturns ==
    /\ proc = "alive" /\ pc = "inStart"
    /\ \E k \in 1..Len(task) : task[k] # "spawned"
    /\ Return("nil")
    /\ UNCHANGED << conf, startupVars, envVars, signalVars, started, proc, exitCode >>
    /\ UNCHANGED restVars

\* cmd.Run returns to main, which prints the error if any and returns
MainReturns ==
    /\ proc = "alive" /\ pc = "returned"
    /\ proc' = "exited"
    /\ exitCode' = mainExitCode(rtcRecover(FALSE), err)
    /\ UNCHANGED << conf, pc, err, failedAt, startupVars, envVars, signalVars, started >>
    /\ UNCHANGED restVars

\* faulty variant of notifySend: the send waits for room instead of dropping
notifySendQueued(ch, s) == Append(ch, s)

\* the signal package's delivery to a Notify channel: a send that never
\* blocks, so the signal is dropped when the buffer is full
notifySend(ch, s) == IF Len(ch) < SigChanCap THEN Append(ch, s) ELSE ch

\* the operating system sends the process a termination signal
Signal(s) ==
    /\ proc = "alive" /\ sent < MaxSignals
    /\ sent' = sent + 1
    /\ IF subscribed
       THEN /\ sigChan' = notifySend(sigChan, s)
            /\ notified' = Append(notified, sigChan' # sigChan)
            /\ proc' = proc
       ELSE \* no handler installed: the default action ends the process
            /\ proc' = "killed"
            /\ UNCHANGED << sigChan, notified >>
    /\ UNCHANGED << conf, file, pc, err, failedAt, startupVars, started, subscribed, lpc, i, sig,
                    stops, task, begun, exitCode, received >>
    /\ UNCHANGED restVars

\* a panic in the main goroutine (startServer or anything it calls, server.Start
\* included): main's deferred function runs, recovers the panic and exits
PanicMain ==
    /\ proc = "alive" /\ pc # "returned"
    /\ panicIn' = "main"
    /\ proc' = "exited"
    /\ exitCode' = mainExitCode(rtcRecover(TRUE), err)
    /\ UNCHANGED << conf, pc, err, failedAt, startupVars, envVars, signalVars, started,
                    node, call, mage >>

\* a panic in the goroutine started by "go func() { for i := range 2 ... }()"
\* while it logs or dispatches: that goroutine has no deferred function, main's
\* deferred function belongs to another goroutine and does not run, and the Go
\* runtime prints the panic and ends the process with status 2
PanicListener ==
    /\ proc = "alive" /\ lpc \in {"log", "dispatch"}
    /\ panicIn' = "listener"
    /\ proc' = "crashed"
    /\ exitCode' = 2
    /\ UNCHANGED << conf, pc, err, failedAt, startupVars, envVars, signalVars, started,
                    node, call, mage >>

\* a panic in a goroutine started by "go server.Stop(force)": as for the
\* listener, nothing defers a recover in that goroutine
PanicStop(k) ==
    /\ proc = "alive" /\ task[k] = "running"
    /\ panicIn' = "stop"
    /\ proc' = "crashed"
    /\ exitCode' = 2
    /\ UNCHANGED << conf, pc, err, failedAt, startupVars, envVars, signalVars, started,
                    node, call, mage >>

\* faulty variant of force: the flag inverted
forceInverted(n) == n = 0

\* faulty variant of force: every stop request is forced
forceAlways(n) == n >= 0

\* force := i > 0
force(n) == n > 0

\* faulty variant of LoopHas: the listener re-arms after the second iteration
LoopHasRearm(n) == TRUE

\* for i := range 2: is there an iteration for this value of i
LoopHas(n) == n < LoopCount

\* sig := <-sigChan
ListenerRecv ==
    /\ proc = "alive" /\ lpc = "recv" /\ sigChan # << >>
    /\ sig' = Head(sigChan)
    /\ sigChan' = Tail(sigChan)
    /\ received' = received + 1
    /\ lpc' = "log"
    /\ UNCHANGED << conf, pc, err, failedAt, startupVars, envVars, started, proc, exitCode,
                    subscribed, i, stops, task, begun, notified >>
    /\ UNCHANGED restVars

\* logger.Infow("exit requested, shutting down", "signal", sig, "force", force)
ListenerLog ==
    /\ proc = "alive" /\ lpc = "log"
    /\ lpc' = "dispatch"
    /\ UNCHANGED << conf, pc, err, failedAt, startupVars, envVars, started, proc, exitCode,
                    subscribed, sigChan, i, sig, stops, task, begun, notified, received >>
    /\ UNCHANGED restVars

\* faulty variant of ListenerDispatch: server.Stop(force) is called in the
\* listener itself, so the next stop is dispatched only once every earlier
\* one has returned
ListenerDispatchSync ==
    /\ proc = "alive" /\ lpc = "dispatch"
    /\ \A k \in 1..Len(task) : task[k] = "returned"
    /\ stops' = Append(stops, force(i))
    /\ task' = Append(task, "spawned")
    /\ i' = i + 1
    /\ sig' = "none"
    /\ lpc' = IF LoopHas(i + 1) THEN "recv" ELSE "done"
    /\ UNCHANGED << conf, pc, err, failedAt, startupVars, envVars, started, proc, exitCode,
                    subscribed, sigChan, begun, notified, received >>
    /\ UNCHANGED restVars

\* go server.Stop(force), then the next iteration or the end of the goroutine
ListenerDispatch ==
    /\ proc = "alive" /\ lpc = "dispatch"
    /\ stops' = Append(stops, force(i))
    /\ task' = Append(task, "spawned")
    /\ i' = i + 1
    /\ sig' = "none"
    /\ lpc' = IF LoopHas(i + 1) THEN "recv" ELSE "done"
    /\ UNCHANGED << conf, pc, err, failedAt, startupVars, envVars, started, proc, exitCode,
                    subscribed, sigChan, begun, notified, received >>
    /\ UNCHANGED restVars

\* a dispatched server.Stop(force) task is scheduled and enters Stop
StopBegins(k) ==
    /\ proc = "alive" /\ task[k] = "spawned"
    /\ task' = [task EXCEPT ![k] = "running"]
    /\ begun' = Append(begun, stops[k])
    /\ UNCHANGED << conf, pc, err, failedAt, startupVars, envVars, started, proc, exitCode,
                    subscribed, sigChan, lpc, i, sig, stops, notified, received >>
    /\ UNCHANGED restVars

\* server.Stop(force) returns
StopReturns(k) ==
    /\ proc = "alive" /\ task[k] = "running"
    /\ task' = [task EXCEPT ![k] = "returned"]
    /\ UNCHANGED << conf, pc, err, failedAt, startupVars, envVars, started, proc, exitCode,
                    subscribed, sigChan, lpc, i, sig, stops, begun, notified, received >>
    /\ UNCHANGED restVars

Next ==
    \/ GetConfig
    \/ ValidateKeys
    \/ Profiles
    \/ NewLocalNode
    \/ PrometheusInit
    \/ InitCreateRedisClient
    \/ InitGetMessageBus
    \/ InitCreateStore
    \/ InitCreateKeyProvider
    \/ InitCreateWebhookNotifier
    \/ InitNewLivekitServer
    \/ Notify
    \/ GoListener
    \/ StartServer
    \/ StartReturns
    \/ MainReturns
    \/ \E s \in Signals : Signal(s)
    \/ ListenerRecv
    \/ ListenerLog
    \/ ListenerDispatch
    \/ \E k \in 1..Len(task) : StopBegins(k)
    \/ \E k \in 1..Len(task) : StopReturns(k)
    \/ PanicMain
    \/ PanicListener
    \/ \E k \in 1..Len(task) : PanicStop(k)

Spec == Init /\ [][Next]_vars

\* the Go scheduler runs every runnable goroutine: the listener takes its next
\* step whenever it can. Nothing is assumed of server.Stop, which may never
\* return, nor of the operating system sending signals.
FairSpec ==
    /\ Spec
    /\ WF_vars(ListenerRecv)
    /\ WF_vars(ListenerLog)
    /\ WF_vars(ListenerDispatch)

(***************************************************************************)
(* The pure functions getConfigString, getEgressStore, getIngressStore and *)
(* getSIPStore, each applied once to inputs drawn from bounded sets.       *)
(***************************************************************************)
\* the error of os.ReadFile for a path that names no file
NotExist == "ENOENT"

ConfigFiles == {"", "config.yaml", "other.yaml"}
ConfigBodies == {"", "configBody", "fileContent"}

\* a file system: for each path, the file's contents or NotExist
FileSystems == [ConfigFiles \ {""} -> ConfigBodies \cup {NotExist}]

\* the nil interface value
NilStore == [kind |-> "nil", id |-> 0]

\* ObjectStore values: two instances of each implementation, and nil
ObjectStores ==
    {NilStore} \cup [kind : {"RedisStore", "LocalStore", "OtherStore"}, id : {1, 2}]

\* os.ReadFile(name)
ReadFile(fs, name) ==
    IF name \in DOMAIN fs /\ fs[name] # NotExist
    THEN << fs[name], "nil" >>
    ELSE << "", NotExist >>

\* faulty variant of getConfigString: a configured file is read first
getConfigStringFileFirst(configFile, inConfigBody, fs) ==
    IF configFile = "" THEN << inConfigBody, "nil" >>
    ELSE ReadFile(fs, configFile)

\* faulty variant of getConfigString: a read error is swallowed
getConfigStringIgnoresError(configFile, inConfigBody, fs) ==
    IF inConfigBody # "" \/ configFile = "" THEN << inConfigBody, "nil" >>
    ELSE << ReadFile(fs, configFile)[1], "nil" >>

\* faulty variant of getConfigString: the file is read also when no path is given
getConfigStringReadsEmptyPath(configFile, inConfigBody, fs) ==
    IF inConfigBody # "" THEN << inConfigBody, "nil" >>
    ELSE ReadFile(fs, configFile)

\* getConfigString(configFile, inConfigBody): the pair (string, error)
getConfigString(configFile, inConfigBody, fs) ==
    IF inConfigBody # "" \/ configFile = "" THEN << inConfigBody, "nil" >>
    ELSE LET r == ReadFile(fs, configFile) IN
         IF r[2] # "nil" THEN << "", r[2] >> ELSE << r[1], "nil" >>

\* getEgressStore(s): case *RedisStore: return store; default: return nil
getEgressStore(s) == IF s.kind = "RedisStore" THEN s ELSE NilStore

\* getIngressStore(s)
getIngressStore(s) == IF s.kind = "RedisStore" THEN s ELSE NilStore

\* faulty variant of getSIPStore: the in-process store is returned too
getSIPStoreLocalToo(s) == IF s.kind \in {"RedisStore", "LocalStore"} THEN s ELSE NilStore

\* getSIPStore(s)
getSIPStore(s) == IF s.kind = "RedisStore" THEN s ELSE NilStore

\* conf.BindAddresses: a nil slice, or a slice of address strings
NilSlice == [nil |-> TRUE, addrs |-> << >>]
BindAddressLists ==
    {NilSlice} \cup
    [nil : {FALSE},
     addrs : {<< >>, << "127.0.0.1" >>, << "0.0.0.0", "192.168.1.2" >>, << "localhost" >>}]

\* the configuration config.NewConfig returns, as far as getConfig's
\* development-mode block reads or writes it; a CIDR is << address, prefix length >>
DevConfs ==
    [Development : BOOLEAN, Keys : InlineKeys, BindAddresses : BindAddressLists,
     Includes : {<< >>, << << "172.16.0.0", 12 >> >>}]

\* net.ParseIP(addr) != nil
ParseIP(addr) == addr \in {"127.0.0.1", "::1", "0.0.0.0", "::", "192.168.1.2"}

\* ip.IsLoopback()
IsLoopback(addr) == addr \in {"127.0.0.1", "::1"}

\* ip.IsUnspecified()
IsUnspecified(addr) == addr \in {"0.0.0.0", "::"}

\* shouldMatchRTCIP after the loop over conf.BindAddresses
shouldMatchRTCIP(addrs) ==
    \E k \in 1..Len(addrs) :
        ParseIP(addrs[k]) /\ ~IsLoopback(addrs[k]) /\ ~IsUnspecified(addrs[k])

\* conf.RTC.IPs.Includes after appending bindAddr+"/24" for every bind address
AppendBindCIDRs(includes, addrs) ==
    includes \o [k \in 1..Len(addrs) |-> << addrs[k], 24 >>]

\* faulty variant of getConfigDevelopment: the bind addresses are defaulted in
\* development mode whether or not keys are configured
getConfigDevelopmentBindsAlways(c) ==
    IF c.Development
    THEN [c EXCEPT !.Keys = getConfigKeys(c),
                   !.BindAddresses = IF c.BindAddresses.nil
                                     THEN [nil |-> FALSE, addrs |-> << "127.0.0.1", "::1" >>]
                                     ELSE c.BindAddresses]
    ELSE c

\* getConfig after config.NewConfig: the development-mode block
getConfigDevelopment(c) ==
    IF c.Development /\ c.Keys = EmptyMap
    THEN IF c.BindAddresses.nil
         THEN [c EXCEPT !.Keys = DevKeys,
                        !.BindAddresses = [nil |-> FALSE, addrs |-> << "127.0.0.1", "::1" >>]]
         ELSE IF shouldMatchRTCIP(c.BindAddresses.addrs)
         THEN [c EXCEPT !.Keys = DevKeys,
                        !.Includes = AppendBindCIDRs(c.Includes, c.BindAddresses.addrs)]
         ELSE [c EXCEPT !.Keys = DevKeys]
    ELSE c

\* the inputs of one application
CallInputs ==
    [fn : {"none"}, configFile : ConfigFiles, inConfigBody : ConfigBodies,
     fs : FileSystems, s : ObjectStores, c : DevConfs, out : {"unset"}, err : {"unset"}]

\* the server is not being run: every variable of the startup sequence keeps
\* its initial value
ServerNotRun ==
    /\ conf = [Development |-> FALSE, KeyFile |-> "", Keys |-> EmptyMap, Redis |-> FALSE]
    /\ file = NoFile
    /\ pc = "getConfig" /\ err = "nil" /\ failedAt = "none"
    /\ rc = "unset" /\ store = "unset" /\ bus = "unset"
    /\ provider = NoProvider /\ fileOps = << >> /\ server = "unset"
    /\ started = FALSE /\ subscribed = FALSE /\ sigChan = << >>
    /\ lpc = "notStarted" /\ i = 0 /\ sig = "none"
    /\ stops = << >> /\ task = << >> /\ begun = << >>
    /\ proc = "alive" /\ exitCode = -1
    /\ sent = 0 /\ notified = << >> /\ received = 0
    /\ node = "unset" /\ panicIn = "none"

FnInit ==
    /\ call \in CallInputs
    /\ mage = FreshCheckout
    /\ ServerNotRun

mainVars ==
    << conf, file, pc, err, failedAt, startupVars, signalVars, started, proc, exitCode,
       sent, node, panicIn >>

CallGetConfigString ==
    /\ call.fn = "none"
    /\ LET r == getConfigString(call.configFile, call.inConfigBody, call.fs) IN
       call' = [call EXCEPT !.fn = "getConfigString", !.out = r[1], !.err = r[2]]
    /\ UNCHANGED << mainVars, mage >>

CallGetEgressStore ==
    /\ call.fn = "none"
    /\ call' = [call EXCEPT !.fn = "getEgressStore", !.out = getEgressStore(call.s)]
    /\ UNCHANGED << mainVars, mage >>

CallGetIngressStore ==
    /\ call.fn = "none"
    /\ call' = [call EXCEPT !.fn = "getIngressStore", !.out = getIngressStore(call.s)]
    /\ UNCHANGED << mainVars, mage >>

CallGetSIPStore ==
    /\ call.fn = "none"
    /\ call' = [call EXCEPT !.fn = "getSIPStore", !.out = getSIPStore(call.s)]
    /\ UNCHANGED << mainVars, mage >>

CallGetConfig ==
    /\ call.fn = "none"
    /\ call' = [call EXCEPT !.fn = "getConfig", !.out = getConfigDevelopment(call.c),
                            !.err = "nil"]
    /\ UNCHANGED << mainVars, mage >>

FnNext ==
    \/ CallGetConfig
    \/ CallGetConfigString
    \/ CallGetEgressStore
    \/ CallGetIngressStore
    \/ CallGetSIPStore

FnSpec == FnInit /\ [][FnNext]_vars

(***************************************************************************)
(* The mage targets Build and Clean on a working tree whose sources a      *)
(* developer edits between invocations.                                    *)
(***************************************************************************)
\* checksummer.IsChanged(): the checksum of the .go and .mod files differs
\* from the one in .checksumgo (0: there is no such file)
IsChanged(m) == m.checksum # m.sources

\* checksummer.WriteChecksum()
WriteChecksum(m) == [m EXCEPT !.checksum = m.sources]

\* faulty variant of BuildTarget: the checksum is written before go build runs
BuildTargetWritesFirst(m, depsOk, mkdirOk, buildOk) ==
    IF ~depsOk THEN [m EXCEPT !.rets = Append(@, "generateWire")]
    ELSE IF ~IsChanged(m) THEN [m EXCEPT !.rets = Append(@, "nil")]
    ELSE IF ~mkdirOk THEN [m EXCEPT !.rets = Append(@, "mkdir")]
    ELSE IF ~buildOk
    THEN WriteChecksum([m EXCEPT !.binDir = TRUE, !.rets = Append(@, "go build")])
    ELSE WriteChecksum([m EXCEPT !.binDir = TRUE, !.binary = m.sources,
                                 !.rets = Append(@, "nil")])

\* Build(): the working tree afterwards, the error returned appended to rets.
\* depsOk, mkdirOk and buildOk are the outcomes of mg.Deps(generateWire),
\* os.MkdirAll("bin", 0755) and go build
BuildTarget(m, depsOk, mkdirOk, buildOk) ==
    IF ~depsOk THEN [m EXCEPT !.rets = Append(@, "generateWire")]
    ELSE IF ~IsChanged(m) THEN [m EXCEPT !.rets = Append(@, "nil")]
    ELSE IF ~mkdirOk THEN [m EXCEPT !.rets = Append(@, "mkdir")]
    ELSE IF ~buildOk THEN [m EXCEPT !.binDir = TRUE, !.rets = Append(@, "go build")]
    ELSE WriteChecksum([m EXCEPT !.binDir = TRUE, !.binary = m.sources,
                                 !.rets = Append(@, "nil")])

BuildInit ==
    /\ mage = FreshCheckout
    /\ call = NoCall
    /\ ServerNotRun

\* a developer changes a .go or .mod file
EditSource ==
    /\ mage.sources < MaxSources
    /\ mage' = [mage EXCEPT !.sources = @ + 1]
    /\ UNCHANGED << mainVars, call >>

\* mage build
Build ==
    /\ Len(mage.rets) < MaxBuilds
    /\ \E depsOk \in BOOLEAN, mkdirOk \in BOOLEAN, buildOk \in BOOLEAN :
          mage' = BuildTarget(mage, depsOk, mkdirOk, buildOk)
    /\ UNCHANGED << mainVars, call >>

\* mage clean: os.RemoveAll("bin"); os.Remove(goChecksumFile)
Clean ==
    /\ mage' = [mage EXCEPT !.binDir = FALSE, !.binary = 0, !.checksum = 0]
    /\ UNCHANGED << mainVars, call >>

BuildNext ==
    \/ EditSource
    \/ Build
    \/ Clean

BuildSpec == BuildInit /\ [][BuildNext]_vars

(***************************************************************************)
(* Properties.                                                             *)
(***************************************************************************)
InIteration == IF lpc \in {"log", "dispatch"} THEN 1 ELSE 0

\* C1: the first signal the listener consumes yields exactly one
\* Stop(force=false), the second exactly one Stop(force=true), and no third
\* or later signal yields a stop request; after two iterations the listener
\* has ended and consumes nothing more.
C1_TwoPhaseShutdown ==
    /\ Len(stops) <= 2
    /\ received <= 2
    /\ received = Len(stops) + InIteration
    /\ stops = SubSeq(<< FALSE, TRUE >>, 1, Len(stops))
    /\ Len(task) = Len(stops)
    /\ (lpc = "done" => stops = << FALSE, TRUE >>)

C1_Witness ==
    /\ lpc = "done"
    /\ Len(notified) >= 3
    /\ stops = << FALSE, TRUE >>

\* C2: the store built by createStore and the bus built by getMessageBus are
\* both the in-process kind or both the Redis kind, never a mixed pair.
C2_ModeAgreement ==
    (store # "unset" /\ bus # "unset") =>
        \/ store = "LocalStore" /\ bus = "LocalMessageBus"
        \/ store = "RedisStore" /\ bus = "RedisMessageBus"

C2_Witness ==
    /\ server = "built"
    /\ store = "RedisStore"
    /\ bus = "RedisMessageBus"

\* createKeyProvider has returned, with a provider or with an error
KeyProviderCalled == provider.built \/ failedAt = "createKeyProvider"

\* C3: server.Start is never invoked with an empty credential set; when
\* conf.Keys is empty after createKeyProvider has looked at the inline keys
\* and the key file, startServer has returned an error without a server.
C3_NeverStartWithoutKeys ==
    /\ started => (conf.Keys # EmptyMap /\ provider.built /\ provider.keys # EmptyMap)
    /\ (KeyProviderCalled /\ conf.Keys = EmptyMap)
          => /\ failedAt = "createKeyProvider" /\ ~provider.built
             /\ pc = "returned" /\ err # "nil" /\ server = "unset" /\ ~started

C3_Witness ==
    /\ failedAt = "createKeyProvider"
    /\ err = "one of key-file or keys must be provided"
    /\ conf.Keys = EmptyMap
    /\ ~started

InitializeServerSteps ==
    {"createRedisClient", "getMessageBus", "createStore", "createKeyProvider",
     "createWebhookNotifier", "newLivekitServer"}

\* the errors each provider of InitializeServer can return
ProviderErrors(step) ==
    CASE step = "createRedisClient" -> {"unable to connect to redis"}
      [] step = "createKeyProvider" ->
            {"stat: no such file", "key file others permissions must be set to 0",
             "open: permission denied", "EOF", "yaml: syntax error",
             "yaml: unmarshal errors", "one of key-file or keys must be provided"}
      [] step = "createWebhookNotifier" ->
            {"api_key is required to use webhooks", "webhook: notifier error"}
      [] step = "newLivekitServer" -> {"constructor error"}
      [] OTHER -> {}

\* C4: when a provider of InitializeServer returns an error, startServer
\* returns that error, and server.Start, server.Stop, the signal subscription
\* and the listener never happen; no server that is not fully built is started.
C4_AllOrNothing ==
    /\ failedAt \in InitializeServerSteps =>
          /\ pc = "returned" /\ err \in ProviderErrors(failedAt)
          /\ server = "unset"
          /\ ~started /\ stops = << >> /\ begun = << >>
          /\ ~subscribed /\ lpc = "notStarted"
    /\ server = "unset" =>
          (~started /\ stops = << >> /\ ~subscribed /\ lpc = "notStarted")

C4_Witness ==
    /\ failedAt = "createWebhookNotifier"
    /\ proc = "exited"
    /\ store # "unset" /\ provider.built

\* C5: with Redis configured, a failed connection makes createRedisClient
\* return an error that aborts construction; the in-process store and bus
\* are never built for a configuration in which Redis is configured.
C5_NoFallback ==
    conf.Redis =>
        /\ store # "LocalStore" /\ bus # "LocalMessageBus"
        /\ rc = "nil" =>
              /\ pc = "returned" /\ failedAt = "createRedisClient"
              /\ err = "unable to connect to redis"
              /\ store = "unset" /\ bus = "unset" /\ server = "unset"

C5_Witness ==
    /\ conf.Redis /\ rc = "nil"
    /\ failedAt = "createRedisClient"
    /\ proc = "exited"

\* C6 as claimed: a key file with a non-zero "others" permission bit makes
\* createKeyProvider fail whatever it contains; a key file with zero "others"
\* bits and at least one entry makes it succeed with a non-empty key set.
C6_AsClaimed ==
    (KeyProviderCalled /\ conf.KeyFile # "" /\ file.exists) =>
        /\ file.mode % 8 # 0 => (failedAt = "createKeyProvider" /\ ~provider.built)
        /\ (file.mode % 8 = 0 /\ file.entries # EmptyMap) =>
              (provider.built /\ provider.keys # EmptyMap)

\* C6 amended: a key file with a non-zero "others" permission bit makes
\* createKeyProvider fail whatever it contains; a key file with zero "others"
\* bits that the process can open and that decodes without error as a
\* mapping with at least one entry makes it succeed with a non-empty key set
\* holding the file's entries.
C6_KeyFilePermissions ==
    (KeyProviderCalled /\ conf.KeyFile # "" /\ file.exists) =>
        /\ file.mode % 8 # 0 => (failedAt = "createKeyProvider" /\ ~provider.built)
        /\ (file.mode % 8 = 0 /\ file.openable /\ file.kind = "mapping"
              /\ file.entries # EmptyMap) =>
              /\ provider.built /\ failedAt # "createKeyProvider"
              /\ provider.keys # EmptyMap
              /\ file.entries \subseteq provider.keys

C6_Witness ==
    /\ provider.built
    /\ conf.KeyFile # "" /\ file.exists
    /\ (file.mode \div 8) % 8 # 0
    /\ file.entries # EmptyMap

\* C7 as claimed: when inline keys are supplied, createKeyProvider makes no
\* filesystem call on the key file.
C7_AsClaimed ==
    [][(pc = "createKeyProvider" /\ pc' # pc /\ conf.Keys # EmptyMap)
          => fileOps' = << >>]_vars

\* C7 amended: createKeyProvider consults the key file exactly when a key
\* file path is configured, whether or not inline keys are supplied, and then
\* stores the file's entries into the inline keys; the inline keys are used
\* as they are only when no key file path is configured.
C7_KeyFilePreferred ==
    [][(pc = "createKeyProvider" /\ pc' # pc) =>
          /\ (fileOps' # << >>) <=> (conf.KeyFile # "")
          /\ conf.KeyFile = "" =>
                /\ conf'.Keys = conf.Keys
                /\ conf.Keys # EmptyMap => provider' = [built |-> TRUE, keys |-> conf.Keys]
          /\ (conf.KeyFile # "" /\ provider'.built) =>
                /\ fileOps' = << "stat", "open", "decode" >>
                /\ file.entries \subseteq conf'.Keys
                /\ MapKeys(conf'.Keys) = MapKeys(conf.Keys) \cup MapKeys(file.entries)]_vars

C7_Witness ==
    /\ fileOps = << "stat", "open", "decode" >>
    /\ provider.built
    /\ << "k1", "s1" >> \in conf.Keys
    /\ << "k2", "s2" >> \in conf.Keys

\* C8: server.Stop is never invoked before server.Start has been invoked.
C8_StopAfterStart == begun # << >> => started

\* C9 as claimed: the Stop(false) task begins executing before the
\* Stop(true) task begins executing.
C9_AsClaimed ==
    \A k \in 1..Len(begun) : begun[k] => \E j \in 1..(k - 1) : ~begun[j]

\* C9 amended: Stop(false) has been dispatched before Stop(true) is
\* dispatched, hence before the Stop(true) task begins executing; the two
\* tasks may begin executing in either order.
C9_DispatchedInOrder ==
    \A k \in 1..Len(task) :
        (stops[k] /\ task[k] # "spawned") => \E j \in 1..(k - 1) : ~stops[j]

C9_Witness == begun = << TRUE, FALSE >>

Queued == Cardinality({k \in 1..Len(notified) : notified[k]})

\* C10 as claimed: each of the first two signals delivered after subscription
\* is queued and yields its stop request, so that a listener found waiting
\* on the empty channel after two such signals has dispatched both requests.
C10_AsClaimed ==
    /\ \A k \in 1..Len(notified) : k <= 2 => notified[k]
    /\ (Len(notified) >= 2 /\ lpc = "recv" /\ sigChan = << >>) => Len(stops) = 2

\* C10 amended: a signal delivered after subscription is queued exactly when
\* the depth-one buffer is empty at that moment (so the second signal is kept
\* when the listener has already received the first, also while it is logging
\* or dispatching, and dropped when the first is still in the buffer); a
\* queued signal stays in the buffer until the listener receives it, and each
\* signal received yields its stop request at the end of that iteration.
C10_QueuedSignalsKept ==
    /\ [](/\ Queued = received + Len(sigChan)
          /\ received = Len(stops) + InIteration
          /\ Len(sigChan) <= 1)
    /\ [][Len(notified') # Len(notified) =>
             /\ notified'[Len(notified')] <=> (sigChan = << >>)
             /\ sigChan' = IF sigChan = << >> THEN << Head(sigChan') >> ELSE sigChan]_vars
    /\ [][sigChan' # sigChan =>
             \/ Len(notified') # Len(notified)
             \/ (received' = received + 1 /\ sig' = Head(sigChan)
                   /\ sigChan' = Tail(sigChan))]_vars

C10_Witness ==
    /\ notified = << TRUE, FALSE, TRUE >>
    /\ lpc \in {"log", "dispatch"}
    /\ i = 0
    /\ sigChan # << >>

\* C11: the listener is never blocked waiting for a stop to finish. Once the
\* first stop request has been dispatched and a second signal is in the
\* channel, the listener receives it and dispatches the second request,
\* Stop(true), whether or not Stop(false) ever returns (or the process ends
\* first); the listener's own steps never depend on the state of a stop task.
C11_ListenerNeverBlocked ==
    /\ (Len(stops) = 1 /\ sigChan # << >>) ~> (Len(stops) = 2 \/ proc # "alive")
    /\ [](Len(stops) = 2 => stops = << FALSE, TRUE >>)
    /\ []((proc = "alive" /\ lpc = "dispatch") => ENABLED ListenerDispatch)

C11_Witness ==
    /\ stops = << FALSE, TRUE >>
    /\ task[1] = "running"
    /\ received = 2

\* C12 as claimed: signal.Notify has completed before server.Start is called,
\* and every signal arriving after Start has begun is captured by the channel.
C12_AsClaimed ==
    /\ [](started => subscribed)
    /\ [][(started /\ sent' = sent + 1) => \E s \in Signals : sigChan' = Append(sigChan, s)]_vars

\* C12 amended: signal.Notify has completed before server.Start is called, so
\* no signal arriving after Start has begun meets the default action: each is
\* handed to the channel's non-blocking send, which queues it when the
\* one-slot buffer is free and drops it when the buffer is full.
C12_SubscribedBeforeStart ==
    /\ [](started => subscribed)
    /\ [][(started /\ sent' = sent + 1) =>
             /\ proc' = "alive"
             /\ Len(notified') = Len(notified) + 1
             /\ \E s \in Signals :
                    sigChan' = IF Len(sigChan) < SigChanCap
                               THEN Append(sigChan, s)
                               ELSE sigChan]_vars

C12_Witness ==
    /\ started
    /\ proc = "alive"
    /\ Len(notified) = 2
    /\ notified[2] = FALSE
    /\ received = 0

\* C13: when getConfig or conf.ValidateKeys fails, startServer has returned that
\* error without creating the local node, without any step of InitializeServer,
\* without subscribing to signals or starting the listener, and without
\* calling server.Start.
C13_ConfigErrorFailsFast ==
    failedAt \in {"getConfig", "validateKeys"} =>
        /\ pc = "returned"
        /\ err \in {"config error", "invalid keys"}
        /\ node = "unset"
        /\ rc = "unset" /\ bus = "unset" /\ store = "unset"
        /\ ~provider.built /\ server = "unset"
        /\ ~subscribed /\ lpc = "notStarted"
        /\ ~started

C13_Witness ==
    /\ failedAt = "validateKeys"
    /\ err = "invalid keys"
    /\ proc = "exited"

\* C14: a panic that occurs while the server is running, in the main task, in
\* the signal listener or in a dispatched Stop task, is caught by main's
\* deferred boundary and the process exits with status 1.
C14_PanicCaughtAtTop ==
    (started /\ panicIn # "none") => (proc = "exited" /\ exitCode = 1)

\* C15: the process exits with status 0 when main returns, whether the command
\* completed or returned an error, and status 1 is produced only when main's
\* deferred boundary recovered a panic.
C15_ExitStatus ==
    /\ (proc = "exited" /\ panicIn = "none") => exitCode = 0
    /\ exitCode = 1 => (proc = "exited" /\ panicIn = "main")
    /\ (proc = "exited" /\ panicIn = "main") => exitCode = 1

C15_Witness ==
    /\ proc = "exited"
    /\ panicIn = "none"
    /\ err # "nil"
    /\ exitCode = 0

\* C16: getEgressStore, getIngressStore and getSIPStore return the very store
\* they were given when it is a RedisStore, and nil for a LocalStore, for any
\* other implementation and for nil.
C16_FeatureStoresNeedRedis ==
    call.fn \in {"getEgressStore", "getIngressStore", "getSIPStore"} =>
        call.out = IF call.s.kind = "RedisStore" THEN call.s ELSE NilStore

C16_Witness ==
    /\ call.fn = "getSIPStore"
    /\ call.s.kind = "LocalStore"
    /\ call.out = NilStore

\* C17: when both configFile and inConfigBody are non-empty, getConfigString
\* returns inConfigBody and a nil error, whatever the file holds and whether
\* or not it exists.
C17_InlineBodyWins ==
    (call.fn = "getConfigString" /\ call.configFile # "" /\ call.inConfigBody # "") =>
        (call.out = call.inConfigBody /\ call.err = "nil")

C17_Witness ==
    /\ call.fn = "getConfigString"
    /\ call.configFile = "config.yaml"
    /\ call.inConfigBody = "configBody"
    /\ call.fs["config.yaml"] = "fileContent"
    /\ call.out = "configBody"

\* C18: with an empty inConfigBody and a non-empty configFile, getConfigString
\* returns the file's contents and a nil error when the file can be read, and
\* the empty string and a non-nil error when the file does not exist.
C18_FileOnly ==
    (call.fn = "getConfigString" /\ call.configFile # "" /\ call.inConfigBody = "") =>
        IF call.fs[call.configFile] = NotExist
        THEN call.out = "" /\ call.err # "nil"
        ELSE call.out = call.fs[call.configFile] /\ call.err = "nil"

C18_Witness ==
    /\ call.fn = "getConfigString"
    /\ call.configFile = "other.yaml"
    /\ call.inConfigBody = ""
    /\ call.fs["other.yaml"] = NotExist
    /\ call.fs["config.yaml"] = "fileContent"
    /\ call.out = ""
    /\ call.err = NotExist

\* C19: with an empty configFile, getConfigString returns inConfigBody and a
\* nil error: the empty string when inConfigBody is empty too.
C19_NoFilePath ==
    (call.fn = "getConfigString" /\ call.configFile = "") =>
        (call.out = call.inConfigBody /\ call.err = "nil")

C19_Witness ==
    /\ call.fn = "getConfigString"
    /\ call.configFile = ""
    /\ call.inConfigBody = ""
    /\ call.out = ""
    /\ call.err = "nil"

\* C20: the mode is a function of conf.Redis alone. Without Redis configured
\* createRedisClient returns a nil client and no error, and the store and the
\* bus, once built, are the LocalStore and the local bus; with Redis
\* configured they are, once built, the RedisStore and the Redis bus over a
\* connected client. Keys, key file and development mode play no part.
C20_ModeFromRedisConfig ==
    /\ (~conf.Redis /\ rc # "unset") => (rc = "nil" /\ failedAt # "createRedisClient")
    /\ bus # "unset" =>
          /\ bus = IF conf.Redis THEN "RedisMessageBus" ELSE "LocalMessageBus"
          /\ rc = IF conf.Redis THEN "client" ELSE "nil"
    /\ store # "unset" =>
          /\ store = IF conf.Redis THEN "RedisStore" ELSE "LocalStore"
          /\ rc = IF conf.Redis THEN "client" ELSE "nil"

C20_Witness ==
    /\ conf.Redis /\ conf.Development /\ conf.KeyFile # ""
    /\ store = "RedisStore"
    /\ bus = "RedisMessageBus"

\* C21: a forced stop request is dispatched only after a graceful one has been
\* dispatched. Every dispatch is graceful exactly when it is the first, so
\* Stop(true) is never the first request, and as long as the listener has
\* received a single signal no forced request exists, whatever the state of
\* the graceful stop task.
C21_ForcedOnlyAfterGraceful ==
    /\ [](received <= 1 => \A k \in 1..Len(stops) : ~stops[k])
    /\ [](stops # << >> => ~stops[1])
    /\ [][Len(stops') > Len(stops) =>
             /\ Len(stops') = Len(stops) + 1
             /\ stops'[Len(stops')] <=> (\E j \in 1..Len(stops) : ~stops[j])]_vars

C21_Witness ==
    /\ received = 1
    /\ sent = 1
    /\ stops = << FALSE >>
    /\ task = << "running" >>
    /\ lpc = "recv"
    /\ started

\* C22: when createKeyProvider is called with a key file configured and the
\* file does not exist or has a non-zero "others" permission digit, the call
\* returns an error having made no filesystem call but stat (no open, no
\* decode), builds no provider, and leaves conf.Keys as it was before the call.
C22_RejectionLeavesKeys ==
    [][(/\ pc = "createKeyProvider" /\ pc' # pc
        /\ conf.KeyFile # ""
        /\ (~file.exists \/ file.mode % 8 # 0)) =>
          /\ conf'.Keys = conf.Keys
          /\ fileOps' = << "stat" >>
          /\ err' # "nil" /\ failedAt' = "createKeyProvider" /\ pc' = "returned"
          /\ ~provider'.built]_vars

C22_Witness ==
    /\ failedAt = "createKeyProvider"
    /\ conf.KeyFile # ""
    /\ file.exists /\ file.mode % 8 # 0
    /\ file.kind = "mapping" /\ file.entries # EmptyMap
    /\ conf.Keys = {<< "k1", "s1" >>}
    /\ fileOps = << "stat" >>

\* C23: getConfig installs the placeholder credentials only in development
\* mode with no key configured, and conf.Keys is then exactly
\* {devkey: secret}; with development mode off, or with a key configured,
\* conf.Keys, conf.BindAddresses and conf.RTC.IPs.Includes come out as they
\* went in.
C23_PlaceholderKeysOnlyInDev ==
    call.fn = "getConfig" =>
        IF call.c.Development /\ call.c.Keys = EmptyMap
        THEN call.out.Keys = {<< "devkey", "secret" >>}
        ELSE /\ call.out.Keys = call.c.Keys
             /\ call.out.BindAddresses = call.c.BindAddresses
             /\ call.out.Includes = call.c.Includes

C23_Witness ==
    /\ call.fn = "getConfig"
    /\ call.c.Development
    /\ call.c.Keys = {<< "k1", "s1" >>}
    /\ call.c.BindAddresses = NilSlice
    /\ call.out.BindAddresses = NilSlice
    /\ call.out.Keys = {<< "k1", "s1" >>}

\* C24: Build writes the source checksum only after a successful build. An
\* invocation that finds the checksum equal to the sources builds nothing and
\* writes nothing; one that returns an error (bin directory or go build
\* failed) leaves the checksum file as it was, so sources that were changed
\* before it are still changed after it, and an invocation that finds changed
\* sources and fails nowhere builds them; a checksum on disk is always that of
\* the sources the binary was built from.
C24_ChecksumAfterBuild ==
    /\ [](mage.checksum # 0 => (mage.binDir /\ mage.binary = mage.checksum))
    /\ [][Len(mage'.rets) > Len(mage.rets) =>
             LET ret == mage'.rets[Len(mage'.rets)] IN
             /\ mage.checksum = mage.sources =>
                   /\ mage'.binary = mage.binary
                   /\ mage'.binDir = mage.binDir
                   /\ mage'.checksum = mage.checksum
             /\ ret # "nil" =>
                   /\ mage'.checksum = mage.checksum
                   /\ mage'.binary = mage.binary
             /\ mage'.checksum # mage.checksum =>
                   /\ ret = "nil"
                   /\ mage'.checksum = mage.sources
                   /\ mage'.binary = mage.sources
             /\ (mage.checksum # mage.sources /\ ret = "nil") =>
                   mage'.binary = mage.sources]_vars

C24_Witness ==
    /\ mage.rets = << "nil", "go build", "nil" >>
    /\ mage.sources = 2
    /\ mage.checksum = 2
    /\ mage.binary = 2

====
